---- MODULE Spec2Model ----
(***************************************************************************)
(* The OpenStack service layer of cloudbridge                              *)
(* (cloudbridge/providers/openstack/services.py).  The layer keeps no      *)
(* state of its own: every service method resolves its arguments, calls    *)
(* the nova or cinder client held by the provider and wraps the answer.    *)
(*                                                                         *)
(* The state is the backend (nova, cinder: the records the two clients     *)
(* hold), the arguments a caller holds for a create operation (request),   *)
(* the backend calls issued by the service call of the last step (calls)   *)
(* and what that call's caller saw (last).                                 *)
(*                                                                         *)
(* Spec       the read operations (get, find, list) called with any        *)
(*            argument while other clients create and delete records.      *)
(* SpecCreate the create operations called with the arguments of request,  *)
(*            which the initial state draws from CreateRequests, while the *)
(*            flavor listing changes.                                      *)
(***************************************************************************)
EXTENDS Naturals, Sequences, FiniteSets, TLC

VARIABLES nova, cinder, request, calls, last

vars == <<nova, cinder, request, calls, last>>

(***************************************************************************)
(* Bounds of the model.                                                    *)
(***************************************************************************)
MaxId == 2          \* identifiers the backend can hand out per resource kind
MaxHeld == 2        \* records the backend holds at once, over all kinds
MaxFlavors == 2     \* length of the flavor listing
MaxGroups == 2      \* length of a security_groups argument

IdName == <<"id1", "id2", "id3", "id4">>
Ids == {IdName[i] : i \in 1..MaxId}

(***************************************************************************)
(* Python values.  Every value is a record tagged with its type, so that   *)
(* a string, None, a domain object and a list can stand in the same        *)
(* argument position, as they do in the code.                              *)
(***************************************************************************)
None_ == [t |-> "None"]
Str(s) == [t |-> "str", v |-> s]
List(items) == [t |-> "list", items |-> items]

\* a resource object built from a backend record: Cls(provider, record)
Wrap(cls, record) == [t |-> cls, os |-> record]

\* BaseSecurityGroup(id, name, description)
BaseSecurityGroup(id, name, description) ==
    [t |-> "BaseSecurityGroup", id |-> id, name |-> name, description |-> description]

\* BaseKeyPair(name)
BaseKeyPair(name) == [t |-> "BaseKeyPair", name |-> name]

\* the classes a value is an instance of
Bases(cls) ==
    CASE cls = "OpenStackMachineImage" -> {"OpenStackMachineImage", "MachineImage"}
      [] cls = "OpenStackInstanceType" -> {"OpenStackInstanceType", "InstanceType"}
      [] cls = "OpenStackVolume"       -> {"OpenStackVolume", "Volume"}
      [] cls = "OpenStackSnapshot"     -> {"OpenStackSnapshot", "Snapshot"}
      [] cls = "OpenStackInstance"     -> {"OpenStackInstance", "Instance"}
      [] cls = "OpenStackRegion"       -> {"OpenStackRegion", "Region"}
      [] cls = "BaseSecurityGroup"     -> {"BaseSecurityGroup", "SecurityGroup"}
      [] cls = "BaseKeyPair"           -> {"BaseKeyPair", "KeyPair"}
      [] OTHER                         -> {cls}

\* isinstance(value, cls)
IsInstance(value, cls) == cls \in Bases(value.t)

\* the attributes the layer reads from a value, by name
Attributes(value) ==
    CASE value.t = "OpenStackMachineImage" -> [image_id |-> Str(value.os.id)]
      [] value.t = "OpenStackInstanceType" ->
             [id |-> Str(value.os.id), name |-> Str(value.os.name)]
      [] value.t = "OpenStackVolume"       -> [volume_id |-> Str(value.os.id)]
      [] value.t = "OpenStackSnapshot"     -> [snapshot_id |-> Str(value.os.id)]
      [] value.t = "PlacementZone"         -> [name |-> Str(value.os.zoneName)]
      [] value.t = "BaseSecurityGroup"     ->
             [id |-> Str(value.id), name |-> Str(value.name)]
      [] value.t = "BaseKeyPair"           -> [name |-> Str(value.name)]
      [] OTHER                             -> [a \in {} |-> None_]

HasAttr(value, attr) == attr \in DOMAIN Attributes(value)
GetAttr(value, attr) == Attributes(value)[attr]

\* the truth value Python gives a value in `if value:` / `value and ...`
Truthy(value) ==
    CASE value.t = "None" -> FALSE
      [] value.t = "str"  -> value.v # ""
      [] value.t = "list" -> Len(value.items) > 0
      [] OTHER            -> TRUE

\* how a call ends: it returns a value or raises an exception
Return(value) == [kind |-> "return", val |-> value, exc |-> ""]
Raise(exc) == [kind |-> "raise", val |-> None_, exc |-> exc]

\* what a service method did: the backend calls it issued, in order, its
\* outcome, and the record the backend created for it (None_ when none)
Result(issued, out) == [calls |-> issued, out |-> out, created |-> None_]
Created(issued, out, record) == [calls |-> issued, out |-> out, created |-> record]

\* obj.attr: the attribute, or AttributeError
Attr(value, attr) ==
    IF HasAttr(value, attr) THEN Return(GetAttr(value, attr))
    ELSE Raise("AttributeError")

(***************************************************************************)
(* The backend: the nova and cinder clients of the provider.               *)
(***************************************************************************)
\* failures of a backend call other than not-found
Faults == {"Unauthorized", "OverLimit", "BadRequest", "ConnectionError"}
\* what the backend does with a get or a create: serve it, answer with an
\* empty record, or fail
Responses == {"ok", "falsy"} \cup Faults
\* what the backend does with a listing
ListResponses == {"ok"} \cup Faults

CinderNotFound == "CinderNotFound"
NovaNotFound == "NovaNotFound"

Call(api, args) == [api |-> api, args |-> args]

\* the records of the backend
Record(cls, id) == [t |-> cls, id |-> id]
GroupRecord(id, name, description) ==
    [t |-> "nova.SecurityGroup", id |-> id, name |-> name, description |-> description]
FlavorRecord(id, name) == [t |-> "nova.Flavor", id |-> id, name |-> name]
ZoneRecord(name) == [t |-> "nova.AvailabilityZone", zoneName |-> name]

GroupNames == {"default", "web"}
ZoneNames == {"nova", "az2"}
\* the flavors the backend can list; two of them share a name
FlavorPool == {FlavorRecord("1", "m1.small"), FlavorRecord("2", "m1.small"),
               FlavorRecord("3", "m1.large")}

\* manager.create(...): the new record, an empty answer, or a failure
ManagerCreate(record, resp) ==
    IF resp \in Faults THEN Raise(resp)
    ELSE IF resp = "falsy" THEN Return(None_)
    ELSE Return(record)

IdIndex(id) == CHOOSE i \in 1..Len(IdName) : IdName[i] = id

RECURSIVE SeqOf(_)
\* the records of a collection in the order the backend lists them
SeqOf(S) ==
    IF S = {} THEN <<>>
    ELSE LET r == CHOOSE x \in S : \A y \in S : IdIndex(x.id) <= IdIndex(y.id)
         IN  <<r>> \o SeqOf(S \ {r})

\* manager.get(id): the record, or the manager's NotFound
ManagerGet(records, id, resp, notFound) ==
    IF resp \in Faults THEN Raise(resp)
    ELSE IF resp = "falsy" THEN Return(None_)
    ELSE IF \E r \in records : r.id = id
         THEN Return(CHOOSE r \in records : r.id = id)
         ELSE Raise(notFound)

\* manager.list(): the listing
ManagerList(records, resp) ==
    IF resp \in Faults THEN Raise(resp) ELSE Return(List(records))

(***************************************************************************)
(* OpenStackSecurityGroupService                                           *)
(***************************************************************************)
WrapSecurityGroup(group) == BaseSecurityGroup(group.id, group.name, group.description)

OpenStackSecurityGroupService_list(resp) ==
    LET groups == ManagerList(SeqOf(nova.security_groups), resp)
        issued == <<Call("nova.security_groups.list", [none |-> None_])>>
    IN  IF groups.kind = "raise" THEN Result(issued, groups)
        ELSE Result(issued,
                    Return(List([i \in 1..Len(groups.val.items) |->
                                    WrapSecurityGroup(groups.val.items[i])])))

OpenStackSecurityGroupService_get(group_id, resp) ==
    LET sg == ManagerGet(nova.security_groups, group_id, resp, NovaNotFound)
        issued == <<Call("nova.security_groups.get", [id |-> Str(group_id)])>>
    IN  IF sg.kind = "raise" THEN Result(issued, sg)
        ELSE IF Truthy(sg.val)
             THEN Result(issued, Return(WrapSecurityGroup(sg.val)))
             ELSE Result(issued, Return(None_))

(***************************************************************************)
(* OpenStackImageService                                                   *)
(***************************************************************************)
WrapMachineImage(image) == Wrap("OpenStackMachineImage", image)

get_image(image_id, resp) ==
    LET r == ManagerGet(nova.images, image_id, resp, NovaNotFound)
        issued == <<Call("nova.images.get", [id |-> Str(image_id)])>>
    IN  IF r.kind = "raise"
        THEN IF r.exc = NovaNotFound THEN Result(issued, Return(None_))
                                     ELSE Result(issued, r)
        ELSE Result(issued, Return(WrapMachineImage(r.val)))

\* find_image as a client-side scan that finds nothing
FindImageByScan(name) ==
    Result(<<Call("nova.images.list", [none |-> None_])>>, Return(None_))

find_image(name) == Result(<<>>, Raise("NotImplementedError"))

list_images(resp) ==
    LET images == ManagerList(SeqOf(nova.images), resp)
        issued == <<Call("nova.images.list", [none |-> None_])>>
    IN  IF images.kind = "raise" THEN Result(issued, images)
        ELSE Result(issued,
                    Return(List([i \in 1..Len(images.val.items) |->
                                    WrapMachineImage(images.val.items[i])])))

(***************************************************************************)
(* OpenStackInstanceTypesService                                           *)
(***************************************************************************)
OpenStackInstanceType(f) == Wrap("OpenStackInstanceType", f)

OpenStackInstanceTypesService_list(resp) ==
    LET flavors == ManagerList(nova.flavors, resp)
        issued == <<Call("nova.flavors.list", [none |-> None_])>>
    IN  IF flavors.kind = "raise" THEN Result(issued, flavors)
        ELSE Result(issued,
                    Return(List([i \in 1..Len(flavors.val.items) |->
                                    OpenStackInstanceType(flavors.val.items[i])])))

\* the last match instead of the first
LastByName(listing, name) ==
    IF \E i \in 1..Len(listing) : GetAttr(listing[i], "name") = name
    THEN listing[CHOOSE i \in 1..Len(listing) :
                     /\ GetAttr(listing[i], "name") = name
                     /\ \A j \in (i + 1)..Len(listing) :
                            GetAttr(listing[j], "name") # name]
    ELSE None_

\* next((itype for itype in listing if itype.name == name), None)
FirstByName(listing, name) ==
    IF \E i \in 1..Len(listing) : GetAttr(listing[i], "name") = name
    THEN listing[CHOOSE i \in 1..Len(listing) :
                     /\ GetAttr(listing[i], "name") = name
                     /\ \A j \in 1..(i - 1) : GetAttr(listing[j], "name") # name]
    ELSE None_

find_by_name(name, resp) ==
    LET listing == OpenStackInstanceTypesService_list(resp)
    IN  IF listing.out.kind = "raise" THEN listing
        ELSE Result(listing.calls, Return(FirstByName(listing.out.val.items, name)))

(***************************************************************************)
(* OpenStackVolumeService                                                  *)
(***************************************************************************)
WrapVolume(vol) == Wrap("OpenStackVolume", vol)

\* get_volume with every failure of the backend call caught
GetVolumeCatchAll(volume_id, resp) ==
    LET r == ManagerGet(cinder.volumes, volume_id, resp, CinderNotFound)
        issued == <<Call("cinder.volumes.get", [id |-> Str(volume_id)])>>
    IN  IF r.kind = "raise" THEN Result(issued, Return(None_))
        ELSE Result(issued, Return(WrapVolume(r.val)))

get_volume(volume_id, resp) ==
    LET r == ManagerGet(cinder.volumes, volume_id, resp, CinderNotFound)
        issued == <<Call("cinder.volumes.get", [id |-> Str(volume_id)])>>
    IN  IF r.kind = "raise"
        THEN IF r.exc = CinderNotFound THEN Result(issued, Return(None_))
                                       ELSE Result(issued, r)
        ELSE Result(issued, Return(WrapVolume(r.val)))

find_volume(name) == Result(<<>>, Raise("NotImplementedError"))

list_volumes(resp) ==
    LET vols == ManagerList(SeqOf(cinder.volumes), resp)
        issued == <<Call("cinder.volumes.list", [none |-> None_])>>
    IN  IF vols.kind = "raise" THEN Result(issued, vols)
        ELSE Result(issued,
                    Return(List([i \in 1..Len(vols.val.items) |->
                                    WrapVolume(vols.val.items[i])])))

(***************************************************************************)
(* OpenStackSnapshotService                                                *)
(***************************************************************************)
WrapSnapshot(snap) == Wrap("OpenStackSnapshot", snap)

get_snapshot(snapshot_id, resp) ==
    LET r == ManagerGet(cinder.volume_snapshots, snapshot_id, resp, CinderNotFound)
        issued == <<Call("cinder.volume_snapshots.get", [id |-> Str(snapshot_id)])>>
    IN  IF r.kind = "raise"
        THEN IF r.exc = CinderNotFound THEN Result(issued, Return(None_))
                                       ELSE Result(issued, r)
        ELSE Result(issued, Return(WrapSnapshot(r.val)))

find_snapshot(name) == Result(<<>>, Raise("NotImplementedError"))

list_snapshots(resp) ==
    LET snaps == ManagerList(SeqOf(cinder.volume_snapshots), resp)
        issued == <<Call("cinder.volume_snapshots.list", [none |-> None_])>>
    IN  IF snaps.kind = "raise" THEN Result(issued, snaps)
        ELSE Result(issued,
                    Return(List([i \in 1..Len(snaps.val.items) |->
                                    WrapSnapshot(snaps.val.items[i])])))

(***************************************************************************)
(* OpenStackComputeService: the read operations                            *)
(***************************************************************************)
WrapInstance(os_instance) == Wrap("OpenStackInstance", os_instance)
WrapRegion(region) == Wrap("OpenStackRegion", region)

list_instances(resp) ==
    LET instances == ManagerList(SeqOf(nova.servers), resp)
        issued == <<Call("nova.servers.list", [none |-> None_])>>
    IN  IF instances.kind = "raise" THEN Result(issued, instances)
        ELSE Result(issued,
                    Return(List([i \in 1..Len(instances.val.items) |->
                                    WrapInstance(instances.val.items[i])])))

\* the listing request with the client's default, detailed=True
ListRegionsCallDetailed == Call("nova.availability_zones.list", [detailed |-> TRUE])

\* the request list_regions sends: availability_zones.list(detailed=False)
list_regions_call == Call("nova.availability_zones.list", [detailed |-> FALSE])

list_regions(resp) ==
    LET regions == ManagerList(nova.availability_zones, resp)
        issued == <<list_regions_call>>
    IN  IF regions.kind = "raise" THEN Result(issued, regions)
        ELSE Result(issued,
                    Return(List([i \in 1..Len(regions.val.items) |->
                                    WrapRegion(regions.val.items[i])])))

get_instance(instance_id, resp) ==
    LET r == ManagerGet(nova.servers, instance_id, resp, NovaNotFound)
        issued == <<Call("nova.servers.get", [id |-> Str(instance_id)])>>
    IN  IF r.kind = "raise"
        THEN IF r.exc = NovaNotFound THEN Result(issued, Return(None_))
                                     ELSE Result(issued, r)
        ELSE Result(issued, Return(WrapInstance(r.val)))

(***************************************************************************)
(* The create operations                                                   *)
(***************************************************************************)
OpenStackSecurityGroupService_create(name, description, resp, newid) ==
    LET issued == <<Call("nova.security_groups.create",
                         [name |-> name, description |-> description])>>
        sg == ManagerCreate(GroupRecord(newid, name.v, description.v), resp)
    IN  IF sg.kind = "raise" THEN Result(issued, sg)
        ELSE IF Truthy(sg.val)
             THEN Created(issued,
                          Return(BaseSecurityGroup(sg.val.id, name.v, description.v)),
                          sg.val)
             ELSE Result(issued, Return(None_))

\* snapshot.snapshot_id if isinstance(zone, OpenStackSnapshot) and snapshot
\* else snapshot
VolumeSnapshotId(zone, snapshot) ==
    IF IsInstance(zone, "OpenStackSnapshot") /\ Truthy(snapshot)
    THEN Attr(snapshot, "snapshot_id")
    ELSE Return(snapshot)

create_volume(name, size, zone, snapshot, resp, newid) ==
    LET zone_name == IF IsInstance(zone, "PlacementZone")
                     THEN Attr(zone, "name") ELSE Return(zone)
        snapshot_id == VolumeSnapshotId(zone, snapshot)
        issued == <<Call("cinder.volumes.create",
                         [size |-> size, name |-> name,
                          availability_zone |-> zone_name.val,
                          snapshot_id |-> snapshot_id.val])>>
        os_vol == ManagerCreate(Record("cinder.Volume", newid), resp)
    IN  IF zone_name.kind = "raise" THEN Result(<<>>, zone_name)
        ELSE IF snapshot_id.kind = "raise" THEN Result(<<>>, snapshot_id)
        ELSE IF os_vol.kind = "raise" THEN Result(issued, os_vol)
        ELSE Created(issued, Return(WrapVolume(os_vol.val)), os_vol.val)

create_snapshot(name, volume, description, resp, newid) ==
    LET volume_id == IF IsInstance(volume, "OpenStackVolume")
                     THEN Attr(volume, "volume_id") ELSE Return(volume)
        issued == <<Call("cinder.volume_snapshots.create",
                         [volume_id |-> volume_id.val, name |-> name,
                          description |-> description])>>
        os_snap == ManagerCreate(Record("cinder.Snapshot", newid), resp)
    IN  IF volume_id.kind = "raise" THEN Result(<<>>, volume_id)
        ELSE IF os_snap.kind = "raise" THEN Result(issued, os_snap)
        ELSE Created(issued, Return(WrapSnapshot(os_snap.val)), os_snap.val)

\* a name that is not listed handed on as if it were an identifier
InstanceSizeFallback(instance_type, lresp) ==
    IF IsInstance(instance_type, "InstanceType")
    THEN Result(<<>>, Attr(instance_type, "name"))
    ELSE LET found == find_by_name(instance_type, lresp)
         IN  IF found.out.kind = "raise" THEN found
             ELSE IF found.out.val = None_ THEN Result(found.calls, Return(instance_type))
             ELSE Result(found.calls, Attr(found.out.val, "id"))

\* instance_type.name if isinstance(instance_type, InstanceType)
\* else self.instance_types.find_by_name(instance_type).id
InstanceSize(instance_type, lresp) ==
    IF IsInstance(instance_type, "InstanceType")
    THEN Result(<<>>, Attr(instance_type, "name"))
    ELSE LET found == find_by_name(instance_type, lresp)
         IN  IF found.out.kind = "raise" THEN found
             ELSE Result(found.calls, Attr(found.out.val, "id"))

RECURSIVE GroupNamesOf(_)
\* [sg.name for sg in security_groups]
GroupNamesOf(groups) ==
    IF groups = <<>> THEN Return(List(<<>>))
    ELSE LET first == Attr(Head(groups), "name")
             rest == GroupNamesOf(Tail(groups))
         IN  IF first.kind = "raise" THEN first
             ELSE IF rest.kind = "raise" THEN rest
             ELSE Return(List(<<first.val>> \o rest.val.items))

\* the security groups handed on as they came
SecurityGroupsListUnresolved(security_groups) ==
    IF Truthy(security_groups) THEN Return(security_groups) ELSE Return(None_)

SecurityGroupsList(security_groups) ==
    IF Truthy(security_groups)
    THEN IF IsInstance(security_groups, "list")
            /\ IsInstance(security_groups.items[1], "SecurityGroup")
         THEN GroupNamesOf(security_groups.items)
         ELSE Return(security_groups)
    ELSE Return(None_)

MinCount == 1
MaxCount == 1

create_instance(name, image, instance_type, zone, keypair, security_groups, user_data, lresp, resp, newid) ==
    LET image_id == IF IsInstance(image, "MachineImage")
                    THEN Attr(image, "image_id") ELSE Return(image)
        instance_size == InstanceSize(instance_type, lresp)
        zone_name == IF IsInstance(zone, "PlacementZone")
                     THEN Attr(zone, "name") ELSE Return(zone)
        keypair_name == IF IsInstance(keypair, "KeyPair")
                        THEN Attr(keypair, "name") ELSE Return(keypair)
        security_groups_list == SecurityGroupsList(security_groups)
        issued == instance_size.calls \o
                  <<Call("nova.servers.create",
                         [name |-> name, image |-> image_id.val,
                          flavor |-> instance_size.out.val,
                          min_count |-> MinCount, max_count |-> MaxCount,
                          availability_zone |-> zone_name.val,
                          key_name |-> keypair_name.val,
                          security_groups |-> security_groups_list.val,
                          userdata |-> user_data])>>
        os_instance == ManagerCreate(Record("nova.Server", newid), resp)
    IN  IF image_id.kind = "raise" THEN Result(<<>>, image_id)
        ELSE IF instance_size.out.kind = "raise" THEN instance_size
        ELSE IF zone_name.kind = "raise" THEN Result(instance_size.calls, zone_name)
        ELSE IF keypair_name.kind = "raise"
             THEN Result(instance_size.calls, keypair_name)
        ELSE IF security_groups_list.kind = "raise"
             THEN Result(instance_size.calls, security_groups_list)
        ELSE IF os_instance.kind = "raise" THEN Result(issued, os_instance)
        ELSE Created(issued, Return(WrapInstance(os_instance.val)), os_instance.val)

(***************************************************************************)
(* The arguments callers pass.                                             *)
(***************************************************************************)
Names == {"m1.small", "m1.large", "nonexistent"}

ImageObject == WrapMachineImage(Record("nova.Image", "id1"))
ZoneObject == [t |-> "PlacementZone", os |-> ZoneRecord("nova")]
KeyPairObject == BaseKeyPair("key1")
VolumeObject == WrapVolume(Record("cinder.Volume", "id1"))
SnapshotObject == WrapSnapshot(Record("cinder.Snapshot", "id1"))
GroupObjects == {BaseSecurityGroup("id1", "default", ""),
                 BaseSecurityGroup("id2", "web", "")}

ImageArgs == {ImageObject, Str("id1")}
InstanceTypeArgs ==
    {OpenStackInstanceType(FlavorRecord("1", "m1.small")), Str("m1.small"), Str("1")}
ZoneArgs == {ZoneObject, Str("nova"), None_}
KeyPairArgs == {KeyPairObject, Str("key1")}
VolumeArgs == {VolumeObject, Str("id1")}
SnapshotArgs == {SnapshotObject, Str("id1"), None_}

SeqsUpTo(S, n) == UNION {[1..k -> S] : k \in 0..n}

SecurityGroupArgs ==
    {None_} \cup {List(g) : g \in SeqsUpTo(GroupObjects \cup {Str("default")}, MaxGroups)}

InstanceRequests ==
    [op : {"create_instance"}, name : {Str("vm")}, image : ImageArgs,
     instance_type : InstanceTypeArgs, zone : ZoneArgs, keypair : KeyPairArgs,
     security_groups : SecurityGroupArgs, user_data : {None_}]
VolumeRequests ==
    [op : {"create_volume"}, name : {Str("vol")}, size : {Str("1")},
     zone : ZoneArgs \cup {SnapshotObject}, snapshot : SnapshotArgs]
SnapshotRequests ==
    [op : {"create_snapshot"}, name : {Str("snap")}, volume : VolumeArgs,
     description : {None_, Str("nightly")}]
GroupRequests ==
    [op : {"create"}, name : {Str(n) : n \in GroupNames}, description : {Str("")}]

CreateRequests ==
    InstanceRequests \cup VolumeRequests \cup SnapshotRequests \cup GroupRequests

NoRequest == [op |-> "none"]

(***************************************************************************)
(* The state machine.                                                      *)
(***************************************************************************)
Idle == [op |-> "none", args |-> None_, resp |-> "none", out |-> Return(None_)]

EmptyNova == [images |-> {}, servers |-> {}, security_groups |-> {},
              flavors |-> <<>>, availability_zones |-> <<>>]
EmptyCinder == [volumes |-> {}, volume_snapshots |-> {}]

Init ==
    /\ nova = EmptyNova
    /\ cinder = EmptyCinder
    /\ request = NoRequest
    /\ calls = <<>>
    /\ last = Idle

\* the state in which a caller holds the arguments of one create operation
InitCreate ==
    /\ nova = EmptyNova
    /\ cinder = EmptyCinder
    /\ request \in CreateRequests
    /\ calls = <<>>
    /\ last = Idle

BackendSize ==
    Cardinality(nova.images) + Cardinality(nova.servers)
    + Cardinality(nova.security_groups) + Len(nova.flavors)
    + Len(nova.availability_zones) + Cardinality(cinder.volumes)
    + Cardinality(cinder.volume_snapshots)

HeldIds(records) == {r.id : r \in records}
Range(seq) == {seq[i] : i \in 1..Len(seq)}
Without(seq, i) == [j \in 1..(Len(seq) - 1) |-> IF j < i THEN seq[j] ELSE seq[j + 1]]

\* A step of the backend that is not a call of this layer: other clients
\* create and delete records.  The outcome of the last service call is
\* dropped, it describes a backend that is gone.
Forget == calls' = <<>> /\ last' = Idle /\ UNCHANGED request

NovaRecordCreated ==
    /\ BackendSize < MaxHeld
    /\ \/ \E id \in Ids \ HeldIds(nova.images) :
             nova' = [nova EXCEPT !.images = @ \cup {Record("nova.Image", id)}]
       \/ \E id \in Ids \ HeldIds(nova.servers) :
             nova' = [nova EXCEPT !.servers = @ \cup {Record("nova.Server", id)}]
       \/ \E id \in Ids \ HeldIds(nova.security_groups), n \in GroupNames :
             nova' = [nova EXCEPT !.security_groups = @ \cup {GroupRecord(id, n, "")}]
    /\ UNCHANGED cinder
    /\ Forget

NovaRecordDeleted ==
    /\ \/ \E r \in nova.images : nova' = [nova EXCEPT !.images = @ \ {r}]
       \/ \E r \in nova.servers : nova' = [nova EXCEPT !.servers = @ \ {r}]
       \/ \E r \in nova.security_groups :
             nova' = [nova EXCEPT !.security_groups = @ \ {r}]
    /\ UNCHANGED cinder
    /\ Forget

CinderRecordCreated ==
    /\ BackendSize < MaxHeld
    /\ \/ \E id \in Ids \ HeldIds(cinder.volumes) :
             cinder' = [cinder EXCEPT !.volumes = @ \cup {Record("cinder.Volume", id)}]
       \/ \E id \in Ids \ HeldIds(cinder.volume_snapshots) :
             cinder' = [cinder EXCEPT !.volume_snapshots =
                                          @ \cup {Record("cinder.Snapshot", id)}]
    /\ UNCHANGED nova
    /\ Forget

CinderRecordDeleted ==
    /\ \/ \E r \in cinder.volumes : cinder' = [cinder EXCEPT !.volumes = @ \ {r}]
       \/ \E r \in cinder.volume_snapshots :
             cinder' = [cinder EXCEPT !.volume_snapshots = @ \ {r}]
    /\ UNCHANGED nova
    /\ Forget

FlavorCreated ==
    /\ BackendSize < MaxHeld
    /\ Len(nova.flavors) < MaxFlavors
    /\ \E f \in FlavorPool \ Range(nova.flavors) :
          nova' = [nova EXCEPT !.flavors = Append(@, f)]
    /\ UNCHANGED cinder
    /\ Forget

FlavorDeleted ==
    /\ \E i \in 1..Len(nova.flavors) :
          nova' = [nova EXCEPT !.flavors = Without(@, i)]
    /\ UNCHANGED cinder
    /\ Forget

ZoneCreated ==
    /\ BackendSize < MaxHeld
    /\ \E n \in ZoneNames \ {z.zoneName : z \in Range(nova.availability_zones)} :
          nova' = [nova EXCEPT !.availability_zones = Append(@, ZoneRecord(n))]
    /\ UNCHANGED cinder
    /\ Forget

ZoneDeleted ==
    /\ \E i \in 1..Len(nova.availability_zones) :
          nova' = [nova EXCEPT !.availability_zones = Without(@, i)]
    /\ UNCHANGED cinder
    /\ Forget

\* What the caller of a read operation observes: the operation, its argument,
\* the backend's answer and the outcome.
Observed(op, args, resp, r) == [op |-> op, args |-> args, resp |-> resp, out |-> r.out]

\* The calls of the read operations: the backend is left as it is.
SecurityGroupList ==
    \E resp \in ListResponses :
        LET r == OpenStackSecurityGroupService_list(resp)
        IN  /\ calls' = r.calls
            /\ last' = Observed("security_groups.list", None_, resp, r)
            /\ UNCHANGED <<nova, cinder, request>>

SecurityGroupGet ==
    \E id \in Ids, resp \in Responses :
        LET r == OpenStackSecurityGroupService_get(id, resp)
        IN  /\ calls' = r.calls
            /\ last' = Observed("security_groups.get", Str(id), resp, r)
            /\ UNCHANGED <<nova, cinder, request>>

GetImage ==
    \E id \in Ids, resp \in Responses :
        LET r == get_image(id, resp)
        IN  /\ calls' = r.calls
            /\ last' = Observed("get_image", Str(id), resp, r)
            /\ UNCHANGED <<nova, cinder, request>>

FindImage ==
    \E n \in Names, resp \in {"none"} :
        LET r == find_image(Str(n))
        IN  /\ calls' = r.calls
            /\ last' = Observed("find_image", Str(n), resp, r)
            /\ UNCHANGED <<nova, cinder, request>>

ListImages ==
    \E resp \in ListResponses :
        LET r == list_images(resp)
        IN  /\ calls' = r.calls
            /\ last' = Observed("list_images", None_, resp, r)
            /\ UNCHANGED <<nova, cinder, request>>

InstanceTypesList ==
    \E resp \in ListResponses :
        LET r == OpenStackInstanceTypesService_list(resp)
        IN  /\ calls' = r.calls
            /\ last' = Observed("instance_types.list", None_, resp, r)
            /\ UNCHANGED <<nova, cinder, request>>

FindByName ==
    \E n \in Names, resp \in ListResponses :
        LET r == find_by_name(Str(n), resp)
        IN  /\ calls' = r.calls
            /\ last' = Observed("find_by_name", Str(n), resp, r)
            /\ UNCHANGED <<nova, cinder, request>>

GetVolume ==
    \E id \in Ids, resp \in Responses :
        LET r == get_volume(id, resp)
        IN  /\ calls' = r.calls
            /\ last' = Observed("get_volume", Str(id), resp, r)
            /\ UNCHANGED <<nova, cinder, request>>

FindVolume ==
    \E n \in Names, resp \in {"none"} :
        LET r == find_volume(Str(n))
        IN  /\ calls' = r.calls
            /\ last' = Observed("find_volume", Str(n), resp, r)
            /\ UNCHANGED <<nova, cinder, request>>

ListVolumes ==
    \E resp \in ListResponses :
        LET r == list_volumes(resp)
        IN  /\ calls' = r.calls
            /\ last' = Observed("list_volumes", None_, resp, r)
            /\ UNCHANGED <<nova, cinder, request>>

GetSnapshot ==
    \E id \in Ids, resp \in Responses :
        LET r == get_snapshot(id, resp)
        IN  /\ calls' = r.calls
            /\ last' = Observed("get_snapshot", Str(id), resp, r)
            /\ UNCHANGED <<nova, cinder, request>>

FindSnapshot ==
    \E n \in Names, resp \in {"none"} :
        LET r == find_snapshot(Str(n))
        IN  /\ calls' = r.calls
            /\ last' = Observed("find_snapshot", Str(n), resp, r)
            /\ UNCHANGED <<nova, cinder, request>>

ListSnapshots ==
    \E resp \in ListResponses :
        LET r == list_snapshots(resp)
        IN  /\ calls' = r.calls
            /\ last' = Observed("list_snapshots", None_, resp, r)
            /\ UNCHANGED <<nova, cinder, request>>

ListInstances ==
    \E resp \in ListResponses :
        LET r == list_instances(resp)
        IN  /\ calls' = r.calls
            /\ last' = Observed("list_instances", None_, resp, r)
            /\ UNCHANGED <<nova, cinder, request>>

ListRegions ==
    \E resp \in ListResponses :
        LET r == list_regions(resp)
        IN  /\ calls' = r.calls
            /\ last' = Observed("list_regions", None_, resp, r)
            /\ UNCHANGED <<nova, cinder, request>>

GetInstance ==
    \E id \in Ids, resp \in Responses :
        LET r == get_instance(id, resp)
        IN  /\ calls' = r.calls
            /\ last' = Observed("get_instance", Str(id), resp, r)
            /\ UNCHANGED <<nova, cinder, request>>

\* A call of a create operation with the arguments of `request`.  `used`
\* are the backend's answers the call consumed ("none" for a backend call
\* that was never issued).
ServeCreate(used, r) ==
    /\ calls' = r.calls
    /\ last' = [op |-> request.op, args |-> request, resp |-> used.resp,
                lresp |-> used.lresp, out |-> r.out]
    /\ UNCHANGED request

Issued(r, api) == \E i \in 1..Len(r.calls) : r.calls[i].api = api
Used(r, api, resp, lresp) ==
    [resp |-> IF Issued(r, api) THEN resp ELSE "none",
     lresp |-> IF Issued(r, "nova.flavors.list") THEN lresp ELSE "none"]

\* the backend serves a create while it has room and an identifier left
CreateResponses(records) ==
    IF BackendSize < MaxHeld /\ Ids \ HeldIds(records) # {}
    THEN Responses ELSE Responses \ {"ok"}

\* the identifier the backend gives the next record of a collection
NewId(records) ==
    IF Ids \ HeldIds(records) = {} THEN "none"
    ELSE CHOOSE id \in Ids \ HeldIds(records) :
             \A other \in Ids \ HeldIds(records) : IdIndex(id) <= IdIndex(other)

SecurityGroupCreate ==
    /\ request.op = "create"
    /\ \E resp \in CreateResponses(nova.security_groups) :
           LET r == OpenStackSecurityGroupService_create(
                        request.name, request.description, resp,
                        NewId(nova.security_groups))
           IN  /\ ServeCreate(Used(r, "nova.security_groups.create", resp, "ok"), r)
               /\ nova' = IF r.created = None_ THEN nova
                          ELSE [nova EXCEPT !.security_groups = @ \cup {r.created}]
               /\ UNCHANGED cinder

CreateVolume ==
    /\ request.op = "create_volume"
    /\ \E resp \in CreateResponses(cinder.volumes) :
           LET r == create_volume(request.name, request.size, request.zone,
                                  request.snapshot, resp, NewId(cinder.volumes))
           IN  /\ ServeCreate(Used(r, "cinder.volumes.create", resp, "ok"), r)
               /\ cinder' = IF r.created = None_ THEN cinder
                            ELSE [cinder EXCEPT !.volumes = @ \cup {r.created}]
               /\ UNCHANGED nova

CreateSnapshot ==
    /\ request.op = "create_snapshot"
    /\ \E resp \in CreateResponses(cinder.volume_snapshots) :
           LET r == create_snapshot(request.name, request.volume,
                                    request.description, resp,
                                    NewId(cinder.volume_snapshots))
           IN  /\ ServeCreate(Used(r, "cinder.volume_snapshots.create", resp, "ok"), r)
               /\ cinder' = IF r.created = None_ THEN cinder
                            ELSE [cinder EXCEPT !.volume_snapshots = @ \cup {r.created}]
               /\ UNCHANGED nova

CreateInstance ==
    /\ request.op = "create_instance"
    /\ \E resp \in CreateResponses(nova.servers),
          lresp \in (IF IsInstance(request.instance_type, "InstanceType")
                     THEN {"ok"} ELSE ListResponses) :
           LET r == create_instance(request.name, request.image,
                                    request.instance_type, request.zone,
                                    request.keypair, request.security_groups,
                                    request.user_data, lresp, resp,
                                    NewId(nova.servers))
           IN  /\ ServeCreate(Used(r, "nova.servers.create", resp, lresp), r)
               /\ nova' = IF r.created = None_ THEN nova
                          ELSE [nova EXCEPT !.servers = @ \cup {r.created}]
               /\ UNCHANGED cinder

Next ==
    \/ NovaRecordCreated \/ NovaRecordDeleted
    \/ CinderRecordCreated \/ CinderRecordDeleted
    \/ FlavorCreated \/ FlavorDeleted
    \/ ZoneCreated \/ ZoneDeleted
    \/ SecurityGroupList \/ SecurityGroupGet
    \/ GetImage \/ FindImage \/ ListImages
    \/ InstanceTypesList \/ FindByName
    \/ GetVolume \/ FindVolume \/ ListVolumes
    \/ GetSnapshot \/ FindSnapshot \/ ListSnapshots
    \/ ListInstances \/ ListRegions \/ GetInstance

Spec == Init /\ [][Next]_vars

NextCreate ==
    \/ FlavorCreated \/ FlavorDeleted
    \/ SecurityGroupCreate \/ CreateVolume \/ CreateSnapshot \/ CreateInstance

SpecCreate == InitCreate /\ [][NextCreate]_vars
(***************************************************************************)
(* Properties.                                                             *)
(***************************************************************************)
GetOps == {"security_groups.get", "get_image", "get_volume", "get_snapshot",
           "get_instance"}
FindOps == {"find_image", "find_volume", "find_snapshot"}
CreateOps == {"create", "create_volume", "create_snapshot", "create_instance"}

\* the records of the collection a get-by-id operation reads
HeldFor(op) ==
    CASE op = "security_groups.get" -> nova.security_groups
      [] op = "get_image"           -> nova.images
      [] op = "get_instance"        -> nova.servers
      [] op = "get_volume"          -> cinder.volumes
      [] op = "get_snapshot"        -> cinder.volume_snapshots

\* the positions of the calls to `api` among the calls of the last operation
CallsTo(issued, api) == {i \in 1..Len(issued) : issued[i].api = api}
TheCall(issued, api) == issued[CHOOSE i \in CallsTo(issued, api) : TRUE]

\* C1: a get-by-id operation called with an identifier the backend does not
\* hold (the backend answers with its not-found failure) returns None and
\* raises nothing.
C1_GetAbsentReturnsNone ==
    (/\ last.op \in GetOps
     /\ last.resp = "ok"
     /\ last.args.v \notin HeldIds(HeldFor(last.op)))
    => last.out = Return(None_)

\* C8: in a get-by-id operation every failure of the backend call other than
\* not-found reaches the caller as it was raised; it is never turned into
\* None or into an object.
C8_OtherFailuresPropagate ==
    (last.op \in GetOps /\ last.resp \in Faults)
    => /\ last.out = Raise(last.resp)
       /\ last.out.kind # "return"

C8_Witness ==
    /\ last.op = "get_volume"
    /\ last.resp = "OverLimit"
    /\ last.out = Raise("OverLimit")
    /\ cinder.volumes # {}

\* C7: find_image, find_volume and find_snapshot raise NotImplementedError
\* for every input in every backend state, return nothing, and issue no
\* backend call; the outcome differs from the absence result of a get.
C7_FindUnsupported ==
    last.op \in FindOps
    => /\ last.out = Raise("NotImplementedError")
       /\ calls = <<>>
       /\ last.out # Return(None_)
       /\ last.out.exc \notin {NovaNotFound, CinderNotFound}

C7_Witness ==
    /\ last.op = "find_image"
    /\ nova.images # {}
    /\ last.out.kind = "raise"
    /\ last.out.exc = "NotImplementedError"

\* C9: every availability-zone listing request this layer issues is made
\* with detailed=False, list_regions issues exactly that one request, and
\* it returns one region per zone record of the backend, in backend order.
C9_RegionsNotDetailed ==
    /\ \A i \in CallsTo(calls, "nova.availability_zones.list") :
           calls[i].args.detailed = FALSE
    /\ last.op = "list_regions"
       => /\ Len(calls) = 1
          /\ calls[1].api = "nova.availability_zones.list"
          /\ calls[1].args.detailed = FALSE
    /\ (last.op = "list_regions" /\ last.out.kind = "return")
       => /\ last.out.val.t = "list"
          /\ Len(last.out.val.items) = Len(nova.availability_zones)
          /\ \A i \in 1..Len(nova.availability_zones) :
                 last.out.val.items[i] =
                     Wrap("OpenStackRegion", nova.availability_zones[i])

C9_Witness ==
    /\ last.op = "list_regions"
    /\ last.out.kind = "return"
    /\ Len(nova.availability_zones) = 2
    /\ Len(last.out.val.items) = 2

\* C5: find_by_name(name) returns None when no listed instance type has
\* that name, and otherwise exactly one instance type: the first of the
\* listing, in backend order, whose name is `name`, also when several
\* listed types share the name.
C5_FindByNameFirstMatch ==
    (last.op = "find_by_name" /\ last.resp = "ok")
    => LET flavors == nova.flavors
           matches == {i \in 1..Len(flavors) : flavors[i].name = last.args.v}
       IN  /\ last.out.kind = "return"
           /\ matches = {} => last.out.val = None_
           /\ matches # {} =>
                \E i \in matches :
                    /\ \A j \in matches : i <= j
                    /\ last.out.val = Wrap("OpenStackInstanceType", flavors[i])

C5_Witness ==
    /\ last.op = "find_by_name"
    /\ last.resp = "ok"
    /\ Len(nova.flavors) = 2
    /\ nova.flavors[1].name = last.args.v
    /\ nova.flavors[2].name = last.args.v
    /\ last.out.val = Wrap("OpenStackInstanceType", nova.flavors[1])

\* C3: create_volume called with a snapshot object, whatever the zone
\* argument is (a zone object, a zone name or None), passes the snapshot's
\* identifier string as snapshot_id to the backend volume-create call.
C3_VolumeSnapshotIdResolved ==
    (/\ last.op = "create_volume"
     /\ IsInstance(last.args.snapshot, "OpenStackSnapshot")
     /\ last.args.zone \in ZoneArgs)
    => /\ CallsTo(calls, "cinder.volumes.create") # {}
       /\ TheCall(calls, "cinder.volumes.create").args.snapshot_id
              = Str(last.args.snapshot.os.id)

\* C4: when the backend create call answers with an empty record, every
\* create operation returns None: it neither raises nor returns an object
\* around the empty record.
C4_EmptyRecordGivesNone ==
    (last.op \in CreateOps /\ last.resp = "falsy")
    => last.out = Return(None_)

\* whether every element of a list argument is a SecurityGroup object
AllGroupObjects(arg) ==
    /\ arg.t = "list"
    /\ Len(arg.items) > 0
    /\ \A i \in 1..Len(arg.items) : arg.items[i].t = "BaseSecurityGroup"

\* C6: create_instance called with a non-empty list of SecurityGroup
\* objects sends the provisioning call with security_groups equal to the
\* list of the groups' names as plain strings, in the same order; called
\* with None it sends None.
C6_SecurityGroupNames ==
    last.op = "create_instance"
    => LET arg == last.args.security_groups
           sent == TheCall(calls, "nova.servers.create").args.security_groups
           reached == CallsTo(calls, "nova.servers.create") # {}
       IN  /\ (arg = None_ /\ reached) => sent = None_
           /\ (AllGroupObjects(arg) /\ reached) =>
                /\ sent.t = "list"
                /\ Len(sent.items) = Len(arg.items)
                /\ \A i \in 1..Len(arg.items) :
                       sent.items[i] = [t |-> "str", v |-> arg.items[i].name]
           /\ (AllGroupObjects(arg) \/ arg = None_)
              /\ IsInstance(last.args.instance_type, "InstanceType")
              => reached

C6_Witness ==
    /\ last.op = "create_instance"
    /\ last.args.security_groups =
           List(<<BaseSecurityGroup("id2", "web", ""),
                  BaseSecurityGroup("id1", "default", "")>>)
    /\ CallsTo(calls, "nova.servers.create") # {}
    /\ TheCall(calls, "nova.servers.create").args.security_groups
           = List(<<Str("web"), Str("default")>>)

\* whether the security_groups argument is one the layer can resolve: not a
\* list that starts with a SecurityGroup object and holds something else
ResolvableGroups(arg) ==
    \/ arg = None_
    \/ Len(arg.items) = 0
    \/ arg.items[1].t # "BaseSecurityGroup"
    \/ AllGroupObjects(arg)

\* C10: create_instance called with a plain string as instance type looks
\* the string up as a name in the instance-types listing and sends the
\* matched type's identifier in a single provisioning request with count 1;
\* when no listed type has that name it sends no provisioning request,
\* returns no instance and leaves the backend as it was.
C10_TypeNameLookup ==
    [][(/\ last'.op = "create_instance"
        /\ last'.args.instance_type.t = "str"
        /\ last'.lresp = "ok")
       => LET name == last'.args.instance_type.v
              matches == {i \in 1..Len(nova.flavors) : nova.flavors[i].name = name}
              sent == CallsTo(calls', "nova.servers.create")
          IN  /\ calls'[1].api = "nova.flavors.list"
              /\ (matches # {} /\ ResolvableGroups(last'.args.security_groups))
                 => /\ Cardinality(sent) = 1
                    /\ \E i \in matches :
                         /\ \A j \in matches : i <= j
                         /\ TheCall(calls', "nova.servers.create").args.flavor
                                = Str(nova.flavors[i].id)
                    /\ TheCall(calls', "nova.servers.create").args.min_count = 1
                    /\ TheCall(calls', "nova.servers.create").args.max_count = 1
              /\ matches = {}
                 => /\ sent = {}
                    /\ last'.out = Raise("AttributeError")
                    /\ nova' = nova
                    /\ cinder' = cinder
      ]_vars

C10_Witness ==
    /\ last.op = "create_instance"
    /\ last.args.instance_type = Str("1")
    /\ last.lresp = "ok"
    /\ nova.flavors # <<>>
    /\ nova.servers = {}
    /\ CallsTo(calls, "nova.servers.create") = {}
    /\ last.out = Raise("AttributeError")

\* the identifier a caller passes instead of a domain object
BareIdentifier(value) ==
    CASE value.t = "OpenStackMachineImage" -> Str(value.os.id)
      [] value.t = "OpenStackInstanceType" -> Str(value.os.name)
      [] value.t = "OpenStackVolume"       -> Str(value.os.id)
      [] value.t = "OpenStackSnapshot"     -> Str(value.os.id)
      [] value.t = "PlacementZone"         -> Str(value.os.zoneName)
      [] value.t = "BaseKeyPair"           -> Str(value.name)
      [] value.t = "BaseSecurityGroup"     -> Str(value.name)
      [] value.t = "list"                  ->
             List([i \in 1..Len(value.items) |->
                      IF value.items[i].t = "BaseSecurityGroup"
                      THEN Str(value.items[i].name) ELSE value.items[i]])
      [] OTHER                             -> value

\* the object-or-id parameters of a create operation
ReferenceParams(op) ==
    CASE op = "create_instance" ->
             {"image", "instance_type", "zone", "keypair", "security_groups"}
      [] op = "create_volume"   -> {"zone", "snapshot"}
      [] op = "create_snapshot" -> {"volume"}
      [] OTHER                  -> {}

\* the create operation of a request, run on the current backend
RunCreate(req, resp, lresp) ==
    CASE req.op = "create_instance" ->
             create_instance(req.name, req.image, req.instance_type, req.zone,
                             req.keypair, req.security_groups, req.user_data,
                             lresp, resp, NewId(nova.servers))
      [] req.op = "create_volume" ->
             create_volume(req.name, req.size, req.zone, req.snapshot, resp,
                           NewId(cinder.volumes))
      [] req.op = "create_snapshot" ->
             create_snapshot(req.name, req.volume, req.description, resp,
                             NewId(cinder.volume_snapshots))
      [] req.op = "create" ->
             OpenStackSecurityGroupService_create(req.name, req.description, resp,
                                                  NewId(nova.security_groups))

\* C2: a create operation called with a domain object and called with that
\* object's bare identifier, the other arguments, the backend and its
\* answers being the same, sends the same backend calls and ends the same.
C2_ObjectOrIdSameOutcome ==
    [][last'.op \in CreateOps
       => \A param \in ReferenceParams(last'.op) :
            LET req == last'.args
                twin == [req EXCEPT ![param] = BareIdentifier(req[param])]
                resp == IF last'.resp = "none" THEN "ok" ELSE last'.resp
                lresp == IF last'.lresp = "none" THEN "ok" ELSE last'.lresp
                other == RunCreate(twin, resp, lresp)
            IN  /\ other.calls = calls'
                /\ other.out = last'.out
      ]_vars
====
